---- MODULE Spec2Model ----
(***************************************************************************)
(* Baggage propagation across an AMQP hop and an HTTP hop.                 *)
(*                                                                         *)
(* Three processes: the publisher (publishMessages), the consumer          *)
(* (consumeMessages / processMessage / callApiService) and the API         *)
(* service (app.post('/process')).  The broker queue and the HTTP          *)
(* transport are the environment.                                          *)
(***************************************************************************)
EXTENDS Integers, Sequences, FiniteSets, TLC

(***************************************************************************)
(* Program constants                                                       *)
(***************************************************************************)
\* default value of connectWithRetry's maxRetries parameter
MaxRetries == 10
\* default value of connectWithRetry's delayMs parameter
DelayMs == 2000
\* number of messages of one publisher run: for (let i = 1; i <= 5; i++)
NumMessages == 5
\* await sleep(2000) between two publishes
InterMessageDelay == 2000

(***************************************************************************)
(* Bounds of the model                                                     *)
(***************************************************************************)
\* delivery tags the broker hands out (deliveries and redeliveries)
MaxDeliveries == 2
\* messages put on the queue by publishers other than publishMessages
MaxForeign == 2
\* baggage entries of a context handed to the carrier codec
MaxEntries == 2

(***************************************************************************)
(* JSON documents: an object is a function from field names to values, a   *)
(* missing field is a name outside its domain.  A text is either the       *)
(* serialisation of an object or not JSON at all.                          *)
(***************************************************************************)
EmptyObject == << >>

JSONstringify(obj) == [json |-> TRUE, obj |-> obj]

NotJsonText == [json |-> FALSE, obj |-> EmptyObject]

\* JSON.parse: throws on a text that is not JSON, else yields the object
JSONparseThrows(text) == ~text.json

JSONparse(text) == text.obj

(***************************************************************************)
(* Baggage: an insertion-ordered map, a sequence of <<key, value>> entries *)
(* with unique keys.                                                       *)
(***************************************************************************)
createBaggage == << >>

RECURSIVE setEntry(_, _, _)
setEntry(baggage, key, value) ==
  IF baggage = << >> THEN << <<key, value>> >>
  ELSE IF Head(baggage)[1] = key THEN << <<key, value>> >> \o Tail(baggage)
  ELSE << Head(baggage) >> \o setEntry(Tail(baggage), key, value)

getAllEntries(baggage) == baggage

\* the Record<string, string> built by iterating the entries
RECURSIVE BaggageRecord(_)
BaggageRecord(entries) ==
  IF entries = << >> THEN EmptyObject
  ELSE LET last == entries[Len(entries)]
           rest == BaggageRecord(SubSeq(entries, 1, Len(entries) - 1))
       IN  (last[1] :> last[2]) @@ rest

(***************************************************************************)
(* Carrier: a flat mapping from header name to header value.  The baggage  *)
(* propagator writes one "baggage" header, the list of members             *)
(* key=value joined by ",", each side percent-encoded, and writes no       *)
(* header for a context without baggage entries.                           *)
(***************************************************************************)
EmptyCarrier == << >>

BAGGAGE_HEADER == "baggage"
BAGGAGE_KEY_PAIR_SEPARATOR == "="
BAGGAGE_PROPERTIES_SEPARATOR == ";"
BAGGAGE_ITEMS_SEPARATOR == ","
\* limits of the propagator: members per header, length of one member, length
\* of the header
BAGGAGE_MAX_NAME_VALUE_PAIRS == 180
BAGGAGE_MAX_PER_NAME_VALUE_PAIRS == 4096
BAGGAGE_MAX_TOTAL_LENGTH == 8192

\* the characters of the model's alphabet that encodeURIComponent escapes;
\* letters, digits, "-", "_" and "." are left as they are
PercentCode ==
  ("%" :> "%25") @@ ("=" :> "%3D") @@ ("," :> "%2C") @@ (";" :> "%3B")
    @@ (" " :> "%20") @@ ("/" :> "%2F") @@ (":" :> "%3A") @@ ("@" :> "%40")

\* a call whose argument is evaluated once, before the call, as JavaScript
\* evaluates it
ByValue(F(_), arg) == CHOOSE r \in { F(v) : v \in {arg} } : TRUE

charAt(str, j) == SubSeq(str, j, j)

\* str.substring(from) / str.substring(from, to), 0-based
substring(str, from, to) == SubSeq(str, from + 1, to)

\* str.indexOf(c) for a single character c, -1 when absent
indexOf(str, c) ==
  IF \E j \in 1..Len(str) : charAt(str, j) = c
    THEN (CHOOSE j \in 1..Len(str) :
            charAt(str, j) = c /\ \A k \in 1..(j - 1) : charAt(str, k) # c) - 1
    ELSE -1

\* str.split(sep) for a single character sep
RECURSIVE split(_, _)
split(str, sep) ==
  LET i == indexOf(str, sep) IN
  IF i = -1 THEN << str >>
  ELSE << substring(str, 0, i) >>
         \o ByValue(LAMBDA rest : split(rest, sep), substring(str, i + 1, Len(str)))

\* str.trim()
RECURSIVE trim(_)
trim(str) ==
  IF str = "" THEN ""
  ELSE IF charAt(str, 1) = " " THEN ByValue(trim, substring(str, 1, Len(str)))
  ELSE IF charAt(str, Len(str)) = " " THEN ByValue(trim, substring(str, 0, Len(str) - 1))
  ELSE str

\* the copy of encodeURIComponent that leaves every character as it is
encodeURIComponent_raw(str) == str

RECURSIVE encodeURIComponent(_)
encodeURIComponent(str) ==
  IF str = "" THEN ""
  ELSE LET c == charAt(str, 1) IN
       (IF c \in DOMAIN PercentCode THEN PercentCode[c] ELSE c)
         \o ByValue(encodeURIComponent, substring(str, 1, Len(str)))

\* the character an escape sequence stands for, "" for a sequence that is
\* not an escape of the model's alphabet
Unescaped(code) ==
  IF \E c \in DOMAIN PercentCode : PercentCode[c] = code
    THEN CHOOSE c \in DOMAIN PercentCode : PercentCode[c] = code
    ELSE ""

\* decodeURIComponent throws URIError on a "%" that starts no escape sequence
RECURSIVE decodeURIComponentThrows(_)
decodeURIComponentThrows(str) ==
  IF str = "" THEN FALSE
  ELSE IF charAt(str, 1) = "%"
    THEN \/ Len(str) < 3
         \/ Unescaped(substring(str, 0, 3)) = ""
         \/ ByValue(decodeURIComponentThrows, substring(str, 3, Len(str)))
    ELSE ByValue(decodeURIComponentThrows, substring(str, 1, Len(str)))

RECURSIVE decodeURIComponent(_)
decodeURIComponent(str) ==
  IF str = "" THEN ""
  ELSE IF charAt(str, 1) = "%"
    THEN Unescaped(substring(str, 0, 3))
           \o ByValue(decodeURIComponent, substring(str, 3, Len(str)))
    ELSE charAt(str, 1) \o ByValue(decodeURIComponent, substring(str, 1, Len(str)))

\* one member: `${encodeURIComponent(key)}=${encodeURIComponent(value.value)}`
keyPairOf(entry) ==
  encodeURIComponent(entry[1]) \o BAGGAGE_KEY_PAIR_SEPARATOR \o encodeURIComponent(entry[2])

\* getKeyPairs: one member per entry
getKeyPairs(baggage) ==
  [j \in 1..Len(getAllEntries(baggage)) |-> ByValue(keyPairOf, baggage[j])]

\* serializeKeyPairs: the members joined by ",", a member that would make the
\* header longer than the limit being left out
RECURSIVE serializeKeyPairs(_)
serializeKeyPairs(keyPairs) ==
  IF keyPairs = << >> THEN ""
  ELSE ByValue(LAMBDA hValue :
                 ByValue(LAMBDA value :
                           IF Len(value) > BAGGAGE_MAX_TOTAL_LENGTH THEN hValue ELSE value,
                         hValue \o (IF hValue # "" THEN BAGGAGE_ITEMS_SEPARATOR ELSE "")
                                \o keyPairs[Len(keyPairs)]),
               ByValue(serializeKeyPairs, SubSeq(keyPairs, 1, Len(keyPairs) - 1)))

\* keyPairs.filter(pair => pair.length <= limit)
RECURSIVE filterByLength(_)
filterByLength(keyPairs) ==
  IF keyPairs = << >> THEN << >>
  ELSE (IF Len(Head(keyPairs)) <= BAGGAGE_MAX_PER_NAME_VALUE_PAIRS THEN << Head(keyPairs) >> ELSE << >>)
         \o ByValue(filterByLength, Tail(keyPairs))

\* keyPairs.slice(0, limit)
slice(keyPairs) ==
  SubSeq(keyPairs, 1, IF Len(keyPairs) < BAGGAGE_MAX_NAME_VALUE_PAIRS
                        THEN Len(keyPairs) ELSE BAGGAGE_MAX_NAME_VALUE_PAIRS)

\* setter.set(carrier, "baggage", headerValue) for a header that is not empty
setHeader(headerValue) ==
  IF Len(headerValue) > 0 THEN (BAGGAGE_HEADER :> headerValue) ELSE EmptyCarrier

\* api.propagation.inject(context, carrier)
inject(baggage) ==
  ByValue(setHeader,
    ByValue(serializeKeyPairs,
      ByValue(slice,
        ByValue(filterByLength, ByValue(getKeyPairs, baggage)))))

\* the key and the value of the part of a member before its properties
keyPairOfPart(keyPairPart) ==
  LET separatorIndex == indexOf(keyPairPart, BAGGAGE_KEY_PAIR_SEPARATOR) IN
  IF keyPairPart = "" \/ separatorIndex <= 0 THEN << >>
  ELSE ByValue(LAMBDA raw :
                 IF decodeURIComponentThrows(raw[1]) \/ decodeURIComponentThrows(raw[2])
                   THEN << >>
                   ELSE << decodeURIComponent(raw[1]), decodeURIComponent(raw[2]) >>,
               << trim(substring(keyPairPart, 0, separatorIndex)),
                  trim(substring(keyPairPart, separatorIndex + 1, Len(keyPairPart))) >>)

\* parsePairKeyValue: << >> for a member that is skipped, else <<key, value>>
parsePairKeyValue(entry) ==
  ByValue(keyPairOfPart, Head(split(entry, BAGGAGE_PROPERTIES_SEPARATOR)))

\* extraction of the baggage from the members of the header: pairs.forEach
RECURSIVE membersToBaggage(_)
membersToBaggage(members) ==
  IF members = << >> THEN createBaggage
  ELSE ByValue(LAMBDA keyPair :
                 ByValue(LAMBDA rest :
                           IF keyPair = << >> THEN rest ELSE setEntry(rest, keyPair[1], keyPair[2]),
                         ByValue(membersToBaggage, SubSeq(members, 1, Len(members) - 1))),
               ByValue(parsePairKeyValue, members[Len(members)]))

\* the members of a header value
pairsOf(baggageString) == split(baggageString, BAGGAGE_ITEMS_SEPARATOR)

\* the baggage of the context extracted from a carrier; other keys of the
\* carrier are not read
getBaggage(carrier) ==
  IF BAGGAGE_HEADER \in DOMAIN carrier /\ carrier[BAGGAGE_HEADER] # ""
    THEN ByValue(membersToBaggage, ByValue(pairsOf, carrier[BAGGAGE_HEADER]))
    ELSE createBaggage

(***************************************************************************)
(* connectWithRetry, one step of the loop body: what the loop does with    *)
(* the outcome of amqp.connect on attempt number `attempt`.                *)
(***************************************************************************)
\* the copy with the last attempt tested one too early
connectWithRetry_offByOne(attempt, maxRetries, accepted) ==
  IF accepted THEN "return"
  ELSE IF attempt = maxRetries - 1 THEN "throw"
  ELSE "sleep"

\* consumer's copy
connectWithRetry(attempt, maxRetries, accepted) ==
  IF accepted THEN "return"
  ELSE IF attempt = maxRetries THEN "throw"
  ELSE "sleep"

\* the copy that sleeps after every refused attempt, the last one included
publisher_connectWithRetry_sleepAlways(attempt, maxRetries, accepted) ==
  IF accepted THEN "return" ELSE "sleep"

\* publisher's copy
publisher_connectWithRetry(attempt, maxRetries, accepted) ==
  IF accepted THEN "return"
  ELSE IF attempt = maxRetries THEN "throw"
  ELSE "sleep"

(***************************************************************************)
(* Publisher: the message and the baggage of message number i              *)
(***************************************************************************)
\* baggageEntries of publishMessageWithBaggage, set entry by entry
publisherBaggage(messageNumber, dateNow) ==
  setEntry(setEntry(setEntry(setEntry(createBaggage,
     "user.id", "user-" \o ToString(1000 + messageNumber)),
     "request.source", "api-gateway"),
     "session.id", "session-" \o ToString(dateNow)),
     "message.number", ToString(messageNumber))

\* const message: Message = { id, timestamp, data }
publisherMessage(messageNumber, dateNow) ==
  ("id" :> messageNumber) @@ ("timestamp" :> dateNow) @@ ("data" :> "Message " \o ToString(messageNumber))

\* what channel.sendToQueue hands to the queue inside api.context.with(ctxWithBaggage):
\* the content bytes and the message headers the context is injected into
Envelope(content, baggage, from) ==
  [content |-> content, headers |-> inject(baggage), baggage |-> baggage, from |-> from]

(***************************************************************************)
(* State                                                                   *)
(***************************************************************************)
VARIABLES
  \* publisher process
  pPc,          \* position in publishMessages
  \* (the three below belong to the activation of connectWithRetry and are
  \* cleared when its caller moves on from the result)
  pAttempt,     \* connectWithRetry: loop variable `attempt`
  pTries,       \* connectWithRetry: calls of amqp.connect made
  pRefused,     \* connectWithRetry: calls of amqp.connect that were rejected
  pTrace,       \* connectWithRetry: the attempts logged and the waits made, in order
  pConn,        \* "none", "connected" or "exhausted"
  pChannel,     \* createChannel has returned a channel
  pI,           \* loop variable i of publishMessages
  pNow,         \* the publisher's clock (Date.now()), relative to the first publish
  published,    \* message numbers handed to the queue, in order
  pFailedAt,    \* message number whose publish threw, 0 if none
  pCloseFailed, \* a close() on the success path rejected
  pCloses,      \* close() requests made by the publisher, in order
  pCatchFailed, \* a close() requested by the catch block rejected
  pExit,        \* exit code of the publisher process, -1 while running
  \* consumer process
  cPc,          \* position in consumeMessages
  \* (the three below belong to the activation of connectWithRetry, as above)
  cAttempt,     \* connectWithRetry: loop variable `attempt`
  cTries,       \* connectWithRetry: calls of amqp.connect made
  cRefused,     \* connectWithRetry: calls of amqp.connect that were rejected
  cTrace,       \* connectWithRetry: the attempts logged and the waits made, in order
  cConn,        \* "none", "connected" or "exhausted"
  cStarted,     \* channel.consume has registered the callback
  cExit,        \* exit code of the consumer process, -1 while running
  chanOpen,     \* the consumer's channel is open
  \* broker and deliveries
  queue,        \* messages ready in the queue
  foreign,      \* messages put on the queue by other publishers so far
  deliveries,   \* one record per delivery tag handed to the consumer
  \* the carrier codec exercised on its own
  kPc,          \* "idle", "context", "encoded" or "decoded"
  kBaggage,     \* the baggage of the context given to inject
  kCarrier,     \* the carrier after inject, with the keys others wrote into it
  kDecoded      \* the baggage extracted from the carrier

pvars == <<pPc, pAttempt, pTries, pRefused, pTrace, pConn, pChannel, pI, pNow, published, pFailedAt, pCloseFailed, pCloses, pCatchFailed, pExit>>
cvars == <<cPc, cAttempt, cTries, cRefused, cTrace, cConn, cStarted, cExit, chanOpen>>
kvars == <<kPc, kBaggage, kCarrier, kDecoded>>
vars == <<pvars, cvars, queue, foreign, deliveries, kvars>>

InitPipeline ==
  /\ pPc = "connect" /\ pAttempt = 1 /\ pTries = 0 /\ pRefused = 0 /\ pTrace = << >>
  /\ pConn = "none" /\ pChannel = FALSE
  /\ pI = 1 /\ pNow = 0 /\ published = << >> /\ pFailedAt = 0 /\ pCloseFailed = FALSE /\ pCloses = << >> /\ pCatchFailed = FALSE /\ pExit = -1
  /\ cPc = "connect" /\ cAttempt = 1 /\ cTries = 0 /\ cRefused = 0 /\ cTrace = << >>
  /\ cConn = "none"
  /\ cStarted = FALSE /\ cExit = -1 /\ chanOpen = FALSE
  /\ queue = << >> /\ foreign = 0 /\ deliveries = << >>

Init ==
  /\ InitPipeline
  /\ kPc = "idle" /\ kBaggage = << >> /\ kCarrier = << >> /\ kDecoded = << >>

(***************************************************************************)
(* Publisher process                                                       *)
(***************************************************************************)
\* the catch block without `.catch(() => {})` on channel.close(): a rejected
\* close leaves the block before connection.close() is requested
catchCloses_uncaught(hasChannel, hasConnection, channelClosed) ==
  IF hasChannel /\ ~channelClosed THEN <<"channel">>
  ELSE (IF hasChannel THEN <<"channel">> ELSE << >>)
         \o (IF hasConnection THEN <<"connection">> ELSE << >>)

\* the close() requests of the catch block: `if (channel) await
\* channel.close().catch(() => {})`, then the same for the connection; a
\* rejected close is swallowed
catchCloses(hasChannel, hasConnection, channelClosed) ==
  (IF hasChannel THEN <<"channel">> ELSE << >>)
    \o (IF hasConnection THEN <<"connection">> ELSE << >>)

\* catch block of publishMessages, entered with `requested` closes already
\* made: close what was opened, then process.exit(1)
catchAfter(requested, hasChannel, hasConnection) ==
  /\ \E channelClosed, connectionClosed \in BOOLEAN :
       /\ pCloses' = requested \o catchCloses(hasChannel, hasConnection, channelClosed)
       /\ pCatchFailed' = \/ hasChannel /\ ~channelClosed
                          \/ hasConnection /\ ~connectionClosed
  /\ pPc' = "exited"
  /\ pExit' = 1

publishMessagesCatch(hasChannel, hasConnection) == catchAfter(pCloses, hasChannel, hasConnection)

\* one iteration of the loop of connectWithRetry, up to its await
P_ConnectAttempt ==
  /\ pPc = "connect"
  /\ \E accepted \in BOOLEAN :
       LET r == publisher_connectWithRetry(pAttempt, MaxRetries, accepted) IN
       /\ pTries' = pTries + 1
       /\ pRefused' = IF accepted THEN pRefused ELSE pRefused + 1
       /\ pTrace' = pTrace \o << <<"attempt", pAttempt>> >>
                           \o (IF r = "sleep" THEN << <<"wait", DelayMs>> >> ELSE << >>)
       /\ CASE r = "return" -> /\ pConn' = "connected" /\ pPc' = "createChannel"
                               /\ UNCHANGED <<pCloses, pCatchFailed, pExit>>
            [] r = "throw"  -> /\ pConn' = "exhausted"
                               /\ publishMessagesCatch(FALSE, FALSE)
            [] r = "sleep"  -> /\ pPc' = "retrySleep"
                               /\ UNCHANGED <<pConn, pCloses, pCatchFailed, pExit>>
  /\ UNCHANGED <<pAttempt, pChannel, pI, pNow, published, pFailedAt, pCloseFailed>>
  /\ UNCHANGED <<kvars, cvars, queue, foreign, deliveries>>

\* await sleep(delayMs) is over: attempt++ and the loop test
P_RetrySleepDone ==
  /\ pPc = "retrySleep"
  /\ pAttempt' = pAttempt + 1
  /\ IF pAttempt + 1 <= MaxRetries
       THEN /\ pPc' = "connect" /\ UNCHANGED <<pConn, pCloses, pCatchFailed, pExit>>
       ELSE /\ pConn' = "exhausted" /\ publishMessagesCatch(FALSE, FALSE)
  /\ UNCHANGED <<pTries, pRefused, pTrace, pChannel, pI, pNow, published, pFailedAt, pCloseFailed>>
  /\ UNCHANGED <<kvars, cvars, queue, foreign, deliveries>>

\* channel = await connection.createChannel(); the frame of connectWithRetry is gone
P_CreateChannel ==
  /\ pPc = "createChannel"
  /\ \E ok \in BOOLEAN :
       /\ pChannel' = ok
       /\ IF ok THEN /\ pPc' = "assertQueue" /\ UNCHANGED <<pCloses, pCatchFailed, pExit>>
                ELSE publishMessagesCatch(FALSE, TRUE)
  /\ pAttempt' = 0 /\ pTries' = 0 /\ pRefused' = 0 /\ pTrace' = << >>
  /\ UNCHANGED <<pConn, pI, pNow, published, pFailedAt, pCloseFailed>>
  /\ UNCHANGED <<kvars, cvars, queue, foreign, deliveries>>

\* await channel.assertQueue(QUEUE_NAME, { durable: false })
P_AssertQueue ==
  /\ pPc = "assertQueue"
  /\ \E ok \in BOOLEAN :
       IF ok THEN /\ pPc' = "publish" /\ UNCHANGED <<pCloses, pCatchFailed, pExit>>
             ELSE publishMessagesCatch(TRUE, TRUE)
  /\ UNCHANGED <<pAttempt, pTries, pRefused, pTrace, pConn, pChannel, pI, pNow, published, pFailedAt, pCloseFailed>>
  /\ UNCHANGED <<kvars, cvars, queue, foreign, deliveries>>

\* publishMessageWithBaggage with a catch block that logs but does not rethrow
publishMessageWithBaggage_swallowed ==
  /\ pPc = "publish"
  /\ \E sent \in BOOLEAN :
       IF sent
         THEN /\ queue' = Append(queue, Envelope(JSONstringify(publisherMessage(pI, pNow)),
                                                 publisherBaggage(pI, pNow), pI))
              /\ published' = Append(published, pI)
              /\ UNCHANGED pFailedAt
         ELSE /\ pFailedAt' = pI
              /\ UNCHANGED <<queue, published>>
  /\ pPc' = "publishSleep"
  /\ UNCHANGED <<pAttempt, pTries, pRefused, pTrace, pConn, pChannel, pI, pNow, pCloseFailed, pCloses, pCatchFailed, pExit>>
  /\ UNCHANGED <<kvars, cvars, foreign, deliveries>>

\* await publishMessageWithBaggage(channel, i): sendToQueue either hands the
\* message to the queue or throws; the throw is logged, rethrown and caught
\* by publishMessages
publishMessageWithBaggage ==
  /\ pPc = "publish"
  /\ \E sent \in BOOLEAN :
       IF sent
         THEN /\ queue' = Append(queue, Envelope(JSONstringify(publisherMessage(pI, pNow)),
                                                 publisherBaggage(pI, pNow), pI))
              /\ published' = Append(published, pI)
              /\ pPc' = "publishSleep"
              /\ UNCHANGED <<pFailedAt, pCloses, pCatchFailed, pExit>>
         ELSE /\ pFailedAt' = pI
              /\ publishMessagesCatch(TRUE, TRUE)
              /\ UNCHANGED <<queue, published>>
  /\ UNCHANGED <<pAttempt, pTries, pRefused, pTrace, pConn, pChannel, pI, pNow, pCloseFailed>>
  /\ UNCHANGED <<kvars, cvars, foreign, deliveries>>

\* the loop without `await sleep(2000)`: i++ and the loop test at once
P_PublishSleepDone_noDelay ==
  /\ pPc = "publishSleep"
  /\ pNow' = pNow
  /\ pI' = pI + 1
  /\ pPc' = IF pI + 1 <= NumMessages THEN "publish" ELSE "closeChannel"
  /\ UNCHANGED <<pAttempt, pTries, pRefused, pTrace, pConn, pChannel, published, pFailedAt, pCloseFailed, pCloses, pCatchFailed, pExit>>
  /\ UNCHANGED <<kvars, cvars, queue, foreign, deliveries>>

\* await sleep(2000) is over: i++ and the loop test
P_PublishSleepDone ==
  /\ pPc = "publishSleep"
  /\ pNow' = pNow + InterMessageDelay
  /\ pI' = pI + 1
  /\ pPc' = IF pI + 1 <= NumMessages THEN "publish" ELSE "closeChannel"
  /\ UNCHANGED <<pAttempt, pTries, pRefused, pTrace, pConn, pChannel, published, pFailedAt, pCloseFailed, pCloses, pCatchFailed, pExit>>
  /\ UNCHANGED <<kvars, cvars, queue, foreign, deliveries>>

\* await channel.close() after the loop
P_CloseChannel ==
  /\ pPc = "closeChannel"
  /\ \E ok \in BOOLEAN :
       IF ok THEN /\ pCloses' = Append(pCloses, "channel")
                  /\ pPc' = "closeConnection"
                  /\ UNCHANGED <<pCloseFailed, pCatchFailed, pExit>>
             ELSE /\ pCloseFailed' = TRUE
                  /\ catchAfter(Append(pCloses, "channel"), TRUE, TRUE)
  /\ UNCHANGED <<pAttempt, pTries, pRefused, pTrace, pConn, pChannel, pI, pNow, published, pFailedAt>>
  /\ UNCHANGED <<kvars, cvars, queue, foreign, deliveries>>

\* await connection.close(); falling off the end, the process ends with code 0
P_CloseConnection ==
  /\ pPc = "closeConnection"
  /\ \E ok \in BOOLEAN :
       IF ok THEN /\ pCloses' = Append(pCloses, "connection")
                  /\ pPc' = "done"
                  /\ pExit' = 0
                  /\ UNCHANGED <<pCloseFailed, pCatchFailed>>
             ELSE /\ pCloseFailed' = TRUE
                  /\ catchAfter(Append(pCloses, "connection"), TRUE, TRUE)
  /\ UNCHANGED <<pAttempt, pTries, pRefused, pTrace, pConn, pChannel, pI, pNow, published, pFailedAt>>
  /\ UNCHANGED <<kvars, cvars, queue, foreign, deliveries>>

publishMessages ==
  \/ P_ConnectAttempt \/ P_RetrySleepDone \/ P_CreateChannel \/ P_AssertQueue
  \/ publishMessageWithBaggage \/ P_PublishSleepDone \/ P_CloseChannel \/ P_CloseConnection

(***************************************************************************)
(* Consumer process: start-up                                              *)
(***************************************************************************)
\* catch block of consumeMessages: close what was opened, then process.exit(1)
consumeMessagesCatch ==
  /\ cPc' = "exited"
  /\ cExit' = 1
  /\ chanOpen' = FALSE

\* one iteration of the loop of connectWithRetry, up to its await
C_ConnectAttempt ==
  /\ cPc = "connect"
  /\ \E accepted \in BOOLEAN :
       LET r == connectWithRetry(cAttempt, MaxRetries, accepted) IN
       /\ cTries' = cTries + 1
       /\ cRefused' = IF accepted THEN cRefused ELSE cRefused + 1
       /\ cTrace' = cTrace \o << <<"attempt", cAttempt>> >>
                           \o (IF r = "sleep" THEN << <<"wait", DelayMs>> >> ELSE << >>)
       /\ CASE r = "return" -> /\ cConn' = "connected" /\ cPc' = "createChannel"
                               /\ UNCHANGED <<cExit, chanOpen>>
            [] r = "throw"  -> /\ cConn' = "exhausted" /\ consumeMessagesCatch
            [] r = "sleep"  -> /\ cPc' = "retrySleep"
                               /\ UNCHANGED <<cConn, cExit, chanOpen>>
  /\ UNCHANGED <<cAttempt, cStarted>>
  /\ UNCHANGED <<kvars, pvars, queue, foreign, deliveries>>

\* await sleep(delayMs) is over: attempt++ and the loop test
C_RetrySleepDone ==
  /\ cPc = "retrySleep"
  /\ cAttempt' = cAttempt + 1
  /\ IF cAttempt + 1 <= MaxRetries
       THEN /\ cPc' = "connect" /\ UNCHANGED <<cConn, cExit, chanOpen>>
       ELSE /\ cConn' = "exhausted" /\ consumeMessagesCatch
  /\ UNCHANGED <<cTries, cRefused, cTrace, cStarted>>
  /\ UNCHANGED <<kvars, pvars, queue, foreign, deliveries>>

\* channel = await connection.createChannel(); the frame of connectWithRetry is gone
C_CreateChannel ==
  /\ cPc = "createChannel"
  /\ \E ok \in BOOLEAN :
       IF ok THEN /\ cPc' = "assertQueue" /\ chanOpen' = TRUE /\ UNCHANGED cExit
             ELSE consumeMessagesCatch
  /\ cAttempt' = 0 /\ cTries' = 0 /\ cRefused' = 0 /\ cTrace' = << >>
  /\ UNCHANGED <<cConn, cStarted>>
  /\ UNCHANGED <<kvars, pvars, queue, foreign, deliveries>>

\* await channel.assertQueue(QUEUE_NAME, { durable: false })
C_AssertQueue ==
  /\ cPc = "assertQueue"
  /\ \E ok \in BOOLEAN :
       IF ok THEN /\ cPc' = "consume" /\ UNCHANGED <<cExit, chanOpen>>
             ELSE consumeMessagesCatch
  /\ UNCHANGED <<cAttempt, cTries, cRefused, cTrace, cConn, cStarted>>
  /\ UNCHANGED <<kvars, pvars, queue, foreign, deliveries>>

\* await channel.consume(QUEUE_NAME, callback)
C_Consume ==
  /\ cPc = "consume"
  /\ \E ok \in BOOLEAN :
       IF ok THEN /\ cPc' = "consuming" /\ cStarted' = TRUE /\ UNCHANGED <<cExit, chanOpen>>
             ELSE consumeMessagesCatch /\ UNCHANGED cStarted
  /\ UNCHANGED <<cAttempt, cTries, cRefused, cTrace, cConn>>
  /\ UNCHANGED <<kvars, pvars, queue, foreign, deliveries>>

consumeMessages ==
  \/ C_ConnectAttempt \/ C_RetrySleepDone \/ C_CreateChannel \/ C_AssertQueue \/ C_Consume

(***************************************************************************)
(* Consumer process: callApiService, the request it issues                 *)
(***************************************************************************)
\* a field of an object that may be undefined: JSON.stringify drops it
Field(name, obj, from) == IF from \in DOMAIN obj THEN (name :> obj[from]) ELSE EmptyObject

\* const postData = JSON.stringify({ messageId, timestamp, data })
postData(messageContent) ==
  JSONstringify(Field("messageId", messageContent, "id")
                @@ Field("timestamp", messageContent, "timestamp")
                @@ Field("data", messageContent, "data"))

\* headers after Object.assign(headers, carrier)
requestHeaders(text, currentBaggage) ==
  inject(currentBaggage)
    @@ ("Content-Type" :> "application/json")
    @@ ("Content-Length" :> ToString(Cardinality(DOMAIN text.obj)))

\* const options = { hostname, port, path, method, /* headers */ }
requestOptions(headers) ==
  [hostname |-> "localhost", port |-> 3000, path |-> "/process", method |-> "POST"]

\* http.request(options) followed by req.write(postData); req.end()
httpRequest(options, text) ==
  [issued |-> TRUE,
   headers |-> IF "headers" \in DOMAIN options THEN options.headers ELSE EmptyCarrier,
   text |-> text]

NoRequest == [issued |-> FALSE, headers |-> EmptyCarrier, text |-> NotJsonText]

NoResponse == [status |-> 0, text |-> NotJsonText]

(***************************************************************************)
(* API service: app.post('/process')                                       *)
(***************************************************************************)
\* express.json(): the body is parsed only under a JSON content type
expressJson(request) ==
  IF /\ "Content-Type" \in DOMAIN request.headers
     /\ request.headers["Content-Type"] = "application/json"
     /\ ~JSONparseThrows(request.text)
    THEN JSONparse(request.text)
    ELSE EmptyObject

\* the handler: res.json(response), or res.status(500).json({error}) from the catch
processEndpoint(request, throws) ==
  IF throws
    THEN [status |-> 500, text |-> JSONstringify("error" :> "Internal server error")]
    ELSE LET requestData == expressJson(request)
             allBaggage == getAllEntries(getBaggage(request.headers))
         IN  [status |-> 200,
              text |-> JSONstringify(("success" :> TRUE)
                                     @@ Field("messageId", requestData, "messageId")
                                     @@ ("processedAt" :> "now")
                                     @@ ("baggageReceived" :> BaggageRecord(allBaggage)))]

(***************************************************************************)
(* Consumer process: processMessage                                        *)
(***************************************************************************)
\* processMessage with a catch block that nacks without requeue
processMessageStart_noRequeue(msg) ==
  IF JSONparseThrows(msg.content)
    THEN [msg |-> msg, st |-> "nacked", acks |-> 0, nacks |-> 1, requeue |-> FALSE,
          ctx |-> createBaggage, calls |-> 0, req |-> NoRequest, resp |-> NoResponse, error |-> FALSE]
    ELSE LET messageContent == JSONparse(msg.content)
             currentBaggage == getBaggage(msg.headers)
             text == postData(messageContent)
         IN  [msg |-> msg, st |-> "called", acks |-> 0, nacks |-> 0, requeue |-> FALSE,
              ctx |-> currentBaggage, calls |-> 1,
              req |-> httpRequest(requestOptions(requestHeaders(text, currentBaggage)), text),
              resp |-> NoResponse, error |-> FALSE]

\* processMessage that throws when the active context has no baggage
processMessageStart_requireBaggage(msg) ==
  IF JSONparseThrows(msg.content) \/ getAllEntries(getBaggage(msg.headers)) = << >>
    THEN [msg |-> msg, st |-> "nacked", acks |-> 0, nacks |-> 1, requeue |-> TRUE,
          ctx |-> createBaggage, calls |-> 0, req |-> NoRequest, resp |-> NoResponse, error |-> FALSE]
    ELSE LET messageContent == JSONparse(msg.content)
             currentBaggage == getBaggage(msg.headers)
             text == postData(messageContent)
         IN  [msg |-> msg, st |-> "called", acks |-> 0, nacks |-> 0, requeue |-> FALSE,
              ctx |-> currentBaggage, calls |-> 1,
              req |-> httpRequest(requestOptions(requestHeaders(text, currentBaggage)), text),
              resp |-> NoResponse, error |-> FALSE]

\* the try block up to `await callApiService(...)`: JSON.parse of the content,
\* the baggage of the active context, and the request written to the socket
processMessageStart(msg) ==
  IF JSONparseThrows(msg.content)
    THEN [msg |-> msg, st |-> "nacked", acks |-> 0, nacks |-> 1, requeue |-> TRUE,
          ctx |-> createBaggage, calls |-> 0, req |-> NoRequest, resp |-> NoResponse, error |-> FALSE]
    ELSE LET messageContent == JSONparse(msg.content)
             currentBaggage == getBaggage(msg.headers)
             text == postData(messageContent)
         IN  [msg |-> msg, st |-> "called", acks |-> 0, nacks |-> 0, requeue |-> FALSE,
              ctx |-> currentBaggage, calls |-> 1,
              req |-> httpRequest(requestOptions(requestHeaders(text, currentBaggage)), text),
              resp |-> NoResponse, error |-> FALSE]

\* res.on('end') that resolves with the raw text instead of parsing it
callResolves_unparsed(response) == TRUE

\* res.on('end'): does the promise of callApiService resolve?
callResolves(response) == ~JSONparseThrows(response.text)

\* the catch block nacking with requeue = false: the broker drops the message
processMessageSettle_noRequeue(dl, resolved, open) ==
  IF resolved
    THEN IF open
           THEN [dl EXCEPT !.st = "acked", !.acks = @ + 1]
           ELSE [dl EXCEPT !.st = "escaped", !.acks = @ + 1, !.nacks = @ + 1, !.requeue = FALSE]
    ELSE IF open
           THEN [dl EXCEPT !.st = "nacked", !.nacks = @ + 1, !.requeue = FALSE]
           ELSE [dl EXCEPT !.st = "escaped", !.nacks = @ + 1, !.requeue = FALSE]

\* the rest of processMessage once callApiService has settled: channel.ack(msg)
\* in the try block, channel.nack(msg, false, true) in the catch block; both
\* throw on a closed channel, and a throw from the catch block leaves the function
processMessageSettle(dl, resolved, open) ==
  IF resolved
    THEN IF open
           THEN [dl EXCEPT !.st = "acked", !.acks = @ + 1]
           ELSE [dl EXCEPT !.st = "escaped", !.acks = @ + 1, !.nacks = @ + 1, !.requeue = TRUE]
    ELSE IF open
           THEN [dl EXCEPT !.st = "nacked", !.nacks = @ + 1, !.requeue = TRUE]
           ELSE [dl EXCEPT !.st = "escaped", !.nacks = @ + 1, !.requeue = TRUE]

\* the broker's side of a nack with requeue: the message is ready again
Requeued(dl, q) == IF dl.st = "nacked" /\ dl.requeue THEN << dl.msg >> \o q ELSE q

\* a rejection that left processMessage is unhandled: node ends the process
\* with code 1
unhandledRejection(dl) ==
  IF dl.st = "escaped"
    THEN /\ cPc' = "exited" /\ cExit' = 1
    ELSE UNCHANGED <<cPc, cExit>>

ConsumerAlive == cStarted /\ cExit = -1

Tags == DOMAIN deliveries

\* the callback of channel.consume, run for the message at the head of the queue
Deliver ==
  /\ ConsumerAlive /\ chanOpen
  /\ queue # << >>
  /\ Len(deliveries) < MaxDeliveries
  /\ LET dl == processMessageStart(Head(queue)) IN
       /\ deliveries' = Append(deliveries, dl)
       /\ queue' = Requeued(dl, Tail(queue))
  /\ UNCHANGED <<kvars, pvars, cvars, foreign>>

\* res.on('end') whose continuation holds the message delivered last instead
\* of the message of its own activation
ResponseEnd_lastMsg(d) ==
  /\ d \in Tags
  /\ ConsumerAlive
  /\ deliveries[d].st = "responded"
  /\ LET last == Len(deliveries)
         dl == processMessageSettle(deliveries[last], callResolves(deliveries[d].resp), chanOpen) IN
       /\ deliveries' = [deliveries EXCEPT ![d].st = "lost", ![last] = dl]
       /\ queue' = Requeued(dl, queue)
       /\ unhandledRejection(dl)
  /\ UNCHANGED <<kvars, pvars, cAttempt, cTries, cRefused, cTrace, cConn, cStarted, chanOpen, foreign>>

\* res.on('end') of a response that arrived in full
ResponseEnd(d) ==
  /\ d \in Tags
  /\ ConsumerAlive
  /\ deliveries[d].st = "responded"
  /\ LET dl == processMessageSettle(deliveries[d], callResolves(deliveries[d].resp), chanOpen) IN
       /\ deliveries' = [deliveries EXCEPT ![d] = dl]
       /\ queue' = Requeued(dl, queue)
       /\ unhandledRejection(dl)
  /\ UNCHANGED <<kvars, pvars, cAttempt, cTries, cRefused, cTrace, cConn, cStarted, chanOpen, foreign>>

\* req.on('error'): the promise of callApiService rejects
RequestError(d) ==
  /\ d \in Tags
  /\ ConsumerAlive
  /\ deliveries[d].st = "errored"
  /\ LET dl == processMessageSettle(deliveries[d], FALSE, chanOpen) IN
       /\ deliveries' = [deliveries EXCEPT ![d] = dl]
       /\ queue' = Requeued(dl, queue)
       /\ unhandledRejection(dl)
  /\ UNCHANGED <<kvars, pvars, cAttempt, cTries, cRefused, cTrace, cConn, cStarted, chanOpen, foreign>>

(***************************************************************************)
(* Environment: the downstream service, the broker, other publishers       *)
(***************************************************************************)
\* the API service handles the request and the response arrives in full
ApiServiceResponds(d) ==
  /\ d \in Tags
  /\ cExit = -1
  /\ deliveries[d].st = "called"
  /\ \E throws \in BOOLEAN :
       deliveries' = [deliveries EXCEPT ![d].st = "responded",
                                        ![d].resp = processEndpoint(deliveries[d].req, throws)]
  /\ UNCHANGED <<kvars, pvars, cvars, queue, foreign>>

\* something else answers at API_SERVICE_URL with a body that is not JSON
DownstreamBadBody(d) ==
  /\ d \in Tags
  /\ cExit = -1
  /\ deliveries[d].st = "called"
  /\ \E status \in {200, 502} :
       deliveries' = [deliveries EXCEPT ![d].st = "responded",
                                        ![d].resp = [status |-> status, text |-> NotJsonText]]
  /\ UNCHANGED <<kvars, pvars, cvars, queue, foreign>>

\* the socket fails (connection refused, reset): 'error' on the request
DownstreamTransportError(d) ==
  /\ d \in Tags
  /\ cExit = -1
  /\ deliveries[d].st = "called"
  /\ deliveries' = [deliveries EXCEPT ![d].st = "errored", ![d].error = TRUE]
  /\ UNCHANGED <<kvars, pvars, cvars, queue, foreign>>

\* the downstream never answers, or closes the socket in the middle of the
\* body without a socket error: neither 'end' nor 'error' is ever emitted
DownstreamSilent(d) ==
  /\ d \in Tags
  /\ cExit = -1
  /\ deliveries[d].st = "called"
  /\ deliveries' = [deliveries EXCEPT ![d].st = "hung"]
  /\ UNCHANGED <<kvars, pvars, cvars, queue, foreign>>

\* the broker closes the consumer's channel (connection forced closed)
ChannelClosed ==
  /\ cStarted /\ chanOpen
  /\ chanOpen' = FALSE
  /\ UNCHANGED <<kvars, pvars, cPc, cAttempt, cTries, cRefused, cTrace, cConn, cStarted, cExit>>
  /\ UNCHANGED <<queue, foreign, deliveries>>

\* messages other publishers put on the queue: malformed ones, well-formed
\* ones without a carrier, and one carrying baggage
ForeignMessages ==
  { Envelope(NotJsonText, createBaggage, 0),
    Envelope(JSONstringify(EmptyObject), createBaggage, 0),
    Envelope(JSONstringify(("id" :> 7) @@ ("data" :> "partial")), createBaggage, 0),
    Envelope(JSONstringify(publisherMessage(8, 0)), createBaggage, 0),
    Envelope(JSONstringify(publisherMessage(9, 0)),
             setEntry(setEntry(createBaggage, "user.id", "user-1009"), "tenant", ""), 0) }

ForeignPublish ==
  /\ foreign < MaxForeign
  /\ \E m \in ForeignMessages : queue' = Append(queue, m)
  /\ foreign' = foreign + 1
  /\ UNCHANGED <<kvars, pvars, cvars, deliveries>>

\* the fields of interface Message
RequiredFields == {"id", "timestamp", "data"}

\* well-formed messages of other publishers, with and without baggage
WellFormedMessages ==
  { m \in ForeignMessages :
      m.content.json /\ RequiredFields \subseteq DOMAIN JSONparse(m.content) }

\* deliveries whose call has failed and whose nack is still to come
PendingRequeues ==
  Cardinality({ d \in Tags : \/ deliveries[d].st = "errored"
                              \/ /\ deliveries[d].st = "responded"
                                 /\ ~callResolves(deliveries[d].resp) })

\* the broker has a delivery tag left for every message that is ready or
\* about to be requeued, and for one more
RedeliveryPossible == Len(deliveries) + Len(queue) + PendingRequeues < MaxDeliveries

\* another publisher puts a well-formed message on the queue
WellFormedPublish ==
  /\ foreign < MaxForeign
  /\ RedeliveryPossible
  /\ \E m \in WellFormedMessages : queue' = Append(queue, m)
  /\ foreign' = foreign + 1
  /\ UNCHANGED <<kvars, pvars, cvars, deliveries>>

\* a downstream failure that is not the last word: the call of a later
\* delivery of the message can still be made
TransientFailure(d) ==
  /\ RedeliveryPossible
  /\ (DownstreamBadBody(d) \/ DownstreamTransportError(d))

\* the consumer's per-message flows
processMessage ==
  \/ Deliver
  \/ \E d \in Tags : ResponseEnd(d)
  \/ \E d \in Tags : RequestError(d)

\* the downstream service and the broker's closing of the channel
Downstream ==
  \/ \E d \in Tags : ApiServiceResponds(d)
  \/ \E d \in Tags : DownstreamBadBody(d)
  \/ \E d \in Tags : DownstreamTransportError(d)
  \/ \E d \in Tags : DownstreamSilent(d)
  \/ ChannelClosed

(***************************************************************************)
(* The carrier codec on its own: a context is injected into a carrier that *)
(* holds other headers too, and the baggage is extracted from the carrier  *)
(***************************************************************************)
\* keys and values of baggage entries: plain ones, keys with punctuation, the
\* empty value, and values holding the codec's own separators and escapes
BaggageKeys == {"user.id", "a=b", "k,;", "t %/"}

BaggageValues == {"", "user-1001", "x=y,z;w", " s %3D "}

\* the contexts with at most MaxEntries entries
Contexts ==
  UNION { { b \in [1..n -> BaggageKeys \X BaggageValues] :
              \A i, j \in 1..n : i # j => b[i][1] # b[j][1] } : n \in 0..MaxEntries }

\* what else a carrier holds: nothing, the headers object of callApiService,
\* or headers written by other propagators and middleware
OtherHeaders ==
  { EmptyCarrier,
    ("Content-Type" :> "application/json") @@ ("Content-Length" :> "3"),
    ("traceparent" :> "00-0af7651916cd43dd8448eb211c80319c-b7ad6b7169203331-01")
      @@ ("x-unknown" :> "a=b,c;d") }

\* api.propagation.inject(api.context.active(), carrier); Object.assign(headers, carrier)
K_Inject ==
  /\ kPc = "context"
  /\ \E headers \in OtherHeaders : kCarrier' = inject(kBaggage) @@ headers
  /\ kPc' = "encoded"
  /\ UNCHANGED <<kBaggage, kDecoded, pvars, cvars, queue, foreign, deliveries>>

\* api.propagation.getBaggage of the context extracted from the carrier
K_Extract ==
  /\ kPc = "encoded"
  /\ kDecoded' = getBaggage(kCarrier)
  /\ kPc' = "decoded"
  /\ UNCHANGED <<kBaggage, kCarrier, pvars, cvars, queue, foreign, deliveries>>

\* extraction from a carrier nothing was injected into
K_ExtractForeign ==
  /\ kPc = "context"
  /\ \E headers \in OtherHeaders :
       /\ kCarrier' = headers
       /\ kDecoded' = getBaggage(headers)
  /\ kPc' = "foreign"
  /\ UNCHANGED <<kBaggage, pvars, cvars, queue, foreign, deliveries>>

InitCodec ==
  /\ InitPipeline
  /\ kPc = "context" /\ kBaggage \in Contexts /\ kCarrier = EmptyCarrier /\ kDecoded = createBaggage

NextCodec == K_Inject \/ K_Extract \/ K_ExtractForeign

SpecCodec == InitCodec /\ [][NextCodec]_vars

\* the system as deployed: the publisher, the consumer and the API service
Next == publishMessages \/ consumeMessages \/ processMessage \/ Downstream

Spec == Init /\ [][Next]_vars

\* the two processes' start-up and the publisher's run, without deliveries
NextProcesses == publishMessages \/ consumeMessages

SpecProcesses == Init /\ [][NextProcesses]_vars

\* the consumer alone, fed by other publishers
NextConsumer == consumeMessages \/ processMessage \/ Downstream \/ ForeignPublish

SpecConsumer == Init /\ [][NextConsumer]_vars

\* the event loop runs every handler whose event has arrived, the broker
\* delivers what is ready, and every request is answered, failed or dropped
FairSpecConsumer ==
  /\ SpecConsumer
  /\ WF_vars(consumeMessages)
  /\ WF_vars(Deliver)
  /\ \A d \in 1..MaxDeliveries : WF_vars(ResponseEnd(d)) /\ WF_vars(RequestError(d))
  /\ \A d \in 1..MaxDeliveries :
       WF_vars(ApiServiceResponds(d) \/ DownstreamBadBody(d)
               \/ DownstreamTransportError(d) \/ DownstreamSilent(d))

\* the consumer on an open channel, fed well-formed messages, with a
\* downstream that answers every call and fails only while the message can
\* still be delivered again
NextRedelivery ==
  \/ consumeMessages
  \/ processMessage
  \/ WellFormedPublish
  \/ \E d \in Tags : ApiServiceResponds(d)
  \/ \E d \in Tags : TransientFailure(d)

SpecRedelivery == Init /\ [][NextRedelivery]_vars

\* the broker delivers what is ready (a requeued message included), the event
\* loop runs every handler whose event has arrived, every call is answered
FairSpecRedelivery ==
  /\ SpecRedelivery
  /\ WF_vars(consumeMessages)
  /\ WF_vars(Deliver)
  /\ \A d \in 1..MaxDeliveries : WF_vars(ResponseEnd(d)) /\ WF_vars(RequestError(d))
  /\ \A d \in 1..MaxDeliveries : WF_vars(ApiServiceResponds(d) \/ TransientFailure(d))

(***************************************************************************)
(* Properties                                                              *)
(***************************************************************************)
\* ack or nack has been invoked and processMessage is over for this delivery
Resolved(dl) == dl.st \in {"acked", "nacked", "escaped"}

\* the downstream call of this delivery has completed
CallCompleted(dl) == dl.calls = 1 /\ (dl.error \/ dl.resp.status # 0)

\* a completed call that is a failure: transport error, non-2xx status, or a
\* body that is not JSON
DownstreamFailed(dl) ==
  \/ dl.error
  \/ dl.resp.status # 0 /\ (dl.resp.status \notin 200..299 \/ ~dl.resp.text.json)

\* C1: for every delivery, ack and nack together are invoked at most once,
\* on every path, a throw of ack or nack included.
C1_AtMostOneResolution ==
  \A d \in Tags : deliveries[d].acks + deliveries[d].nacks <= 1

\* C2: every delivery handed to processMessage is eventually acked or nacked,
\* whatever the downstream does.
C2_EventuallyResolved ==
  \A d \in 1..MaxDeliveries :
    (d \in Tags) ~> (d \in Tags /\ deliveries[d].st \in {"acked", "nacked"})

\* C3: a delivery whose downstream call completed with a non-2xx status is
\* never acked, and once resolved it was nacked with requeue=true.
C3_Non2xxIsNacked ==
  \A d \in Tags :
    LET dl == deliveries[d] IN
    (dl.resp.status # 0 /\ dl.resp.status \notin 200..299)
      => /\ dl.acks = 0
         /\ (Resolved(dl) => dl.nacks = 1 /\ dl.requeue)

\* C4: a delivery whose body is not valid JSON is nacked with requeue=true
\* straight away, is never acked, and no downstream request is issued for it.
C4_InvalidJsonNackedWithoutCall ==
  \A d \in Tags :
    LET dl == deliveries[d] IN
    ~dl.msg.content.json
      => /\ dl.st = "nacked" /\ dl.nacks = 1 /\ dl.requeue
         /\ dl.acks = 0
         /\ dl.calls = 0 /\ ~dl.req.issued

C4_Witness ==
  \E d \in Tags : ~deliveries[d].msg.content.json /\ deliveries[d].nacks = 1

\* C5: a delivery whose body is valid JSON but lacks id, timestamp or data is
\* never acked, and once resolved it was nacked with requeue=true.
C5_MissingFieldsNacked ==
  \A d \in Tags :
    LET dl == deliveries[d] IN
    (dl.msg.content.json /\ ~(RequiredFields \subseteq DOMAIN dl.msg.content.obj))
      => /\ dl.acks = 0
         /\ (Resolved(dl) => dl.nacks = 1 /\ dl.requeue)

\* C6: the request issued for a message published with baggage B carries the
\* JSON content headers and B, and the API service's response reports
\* baggageReceived equal to B.
C6_RequestCarriesBaggage ==
  \A d \in Tags :
    LET dl == deliveries[d] IN
    (dl.req.issued /\ dl.msg.baggage # createBaggage)
      => /\ "Content-Type" \in DOMAIN dl.req.headers
         /\ getBaggage(dl.req.headers) = dl.msg.baggage
         /\ (dl.resp.status = 200 /\ dl.resp.text.json)
              => /\ "baggageReceived" \in DOMAIN dl.resp.text.obj
                 /\ dl.resp.text.obj["baggageReceived"] = BaggageRecord(dl.msg.baggage)

\* C7: in both copies of connectWithRetry, a connection is returned on the
\* attempt after the k < maxRetries refusals and no attempt follows it; when
\* every attempt is refused there are exactly maxRetries attempts and the
\* process ends with code 1.
C7_StateOfConnect(pc, conn, attempt, tries, refused, exit) ==
  /\ (conn = "connected" /\ pc = "createChannel")
       => tries = refused + 1 /\ refused < MaxRetries /\ attempt = tries
  /\ (conn = "connected" /\ pc # "createChannel") => tries = 0
  /\ conn = "exhausted"
       => tries = MaxRetries /\ refused = MaxRetries /\ exit = 1
  /\ conn = "none" => tries = refused /\ tries < MaxRetries

C7_ConnectRetryBound ==
  /\ C7_StateOfConnect(cPc, cConn, cAttempt, cTries, cRefused, cExit)
  /\ C7_StateOfConnect(pPc, pConn, pAttempt, pTries, pRefused, pExit)

C7_Witness ==
  /\ cConn = "connected" /\ cPc = "createChannel" /\ cRefused = 3
  /\ pConn = "exhausted"

\* C8: when every completed downstream call has failed, no delivery has been
\* acked and every resolved delivery was nacked with requeue=true.
C8_AlwaysFailingDownstream ==
  (\A d \in Tags : CallCompleted(deliveries[d]) => DownstreamFailed(deliveries[d]))
    => \A d \in Tags :
         /\ deliveries[d].acks = 0
         /\ Resolved(deliveries[d]) => deliveries[d].nacks = 1 /\ deliveries[d].requeue

\* C9: once the consumer is consuming, no failure of a delivery leaves
\* processMessage or ends the process; exit code 1 only comes from start-up.
C9_PerMessageFailuresContained ==
  cStarted => /\ cExit # 1
              /\ \A d \in Tags : deliveries[d].st # "escaped"

\* C10 as stated: a failed publish of message i leaves exactly 1..i-1
\* published and ends the publisher with code 1; a run whose N publishes all
\* succeeded ends with code 0.
PublisherOver == pPc \in {"done", "exited"}

PublishedPrefix(n) == [j \in 1..n |-> j]

C10_AbortOnFailedPublish ==
  pFailedAt # 0
    => /\ PublisherOver /\ pExit = 1
       /\ published = PublishedPrefix(pFailedAt - 1)
       /\ [j \in DOMAIN queue |-> queue[j].from] = published

C10_Original ==
  /\ C10_AbortOnFailedPublish
  /\ (PublisherOver /\ published = PublishedPrefix(NumMessages)) => pExit = 0

\* C10 as amended: the same, but a run whose N publishes all succeeded ends
\* with code 0 only if closing the channel and the connection succeeded too,
\* and with code 1 if one of the two closes failed.
C10_ProducerAbort ==
  /\ C10_AbortOnFailedPublish
  /\ (PublisherOver /\ published = PublishedPrefix(NumMessages))
       => pExit = (IF pCloseFailed THEN 1 ELSE 0)

C10_Witness == pFailedAt = 3 /\ pExit = 1 /\ Len(queue) = 2

\* C11: within one run the messages are handed to the queue one at a time in
\* the order 1, 2, ..., N; message i+1 is published only after the publish of
\* message i has completed and the inter-message delay has elapsed since.
C11_PublishFifo ==
  /\ published = PublishedPrefix(Len(published))
  /\ Len(published) <= NumMessages
  /\ Len(queue) = Len(published)
  /\ \A j \in DOMAIN queue :
       /\ queue[j].from = j
       /\ JSONparse(queue[j].content)["id"] = j
       /\ JSONparse(queue[j].content)["timestamp"] = (j - 1) * InterMessageDelay
  /\ pPc = "publish" => Len(published) = pI - 1 /\ pNow = Len(published) * InterMessageDelay
  /\ pPc = "publishSleep" => Len(published) = pI /\ pNow = (pI - 1) * InterMessageDelay

C11_Witness == Len(queue) = NumMessages /\ pPc = "closeChannel"

\* C12 as stated: a response of the API service that is not a failure has
\* success = true, the messageId of the request body, and baggageReceived equal
\* to the baggage entries extracted from the request; a failure is a 500 that
\* does not report success.
C12_ReceiverResponse ==
  \A d \in Tags :
    LET dl == deliveries[d]
        body == JSONparse(dl.resp.text)
        sent == JSONparse(dl.req.text)
    IN  /\ (dl.resp.status = 200 /\ dl.resp.text.json)
              => /\ "success" \in DOMAIN body /\ body["success"] = TRUE
                 /\ "messageId" \in DOMAIN sent
                      => "messageId" \in DOMAIN body /\ body["messageId"] = sent["messageId"]
                 /\ "baggageReceived" \in DOMAIN body
                 /\ body["baggageReceived"] = BaggageRecord(getAllEntries(getBaggage(dl.req.headers)))
        /\ (dl.resp.status = 500 /\ dl.resp.text.json) => "success" \notin DOMAIN body

\* C14: an ack is invoked only for a delivery whose downstream call was issued
\* and came back with a complete body that parsed as JSON; a delivery whose
\* call ended in a transport error or a body that is not JSON is never acked
\* and, once resolved, was nacked with requeue=true; a delivery whose content
\* did not parse goes to the nack without a call.
C14_AckAfterParsedResponse ==
  \A d \in Tags :
    LET dl == deliveries[d] IN
    /\ dl.acks >= 1
         => /\ dl.calls = 1 /\ dl.req.issued
            /\ dl.resp.status # 0 /\ dl.resp.text.json /\ ~dl.error
    /\ (dl.error \/ (dl.resp.status # 0 /\ ~dl.resp.text.json))
         => /\ dl.acks = 0
            /\ Resolved(dl) => dl.nacks = 1 /\ dl.requeue
    /\ dl.st \in {"called", "responded", "errored", "hung"} => dl.acks = 0 /\ dl.nacks = 0
    /\ dl.st \in {"responded", "errored", "hung", "acked"} => dl.calls = 1 /\ dl.req.issued
    /\ dl.calls = 1 => dl.msg.content.json

C14_Witness ==
  /\ \E d \in Tags : deliveries[d].st = "acked" /\ deliveries[d].resp.text.json
  /\ \E d \in Tags : deliveries[d].st = "nacked" /\ deliveries[d].calls = 1
                        /\ deliveries[d].resp.status # 0 /\ ~deliveries[d].resp.text.json

\* C16: a step that invokes ack or nack for a delivery is a step of that
\* delivery's own flow, taken after its own downstream call settled; an ack
\* needs its own response to have parsed, a nack alone needs its own call to
\* have failed, and the step leaves every other delivery as it was.
C16_OwnHandleOnly ==
  [][\A d \in Tags :
       LET old == deliveries[d]
           new == deliveries'[d]
       IN  (new.acks # old.acks \/ new.nacks # old.nacks)
             => /\ old.st \in {"responded", "errored"}
                /\ new.msg = old.msg
                /\ new.acks > old.acks => (old.st = "responded" /\ callResolves(old.resp))
                /\ (new.nacks > old.nacks /\ new.acks = old.acks)
                     => (old.st = "errored" \/ ~callResolves(old.resp))
                /\ \A e \in Tags \ {d} : deliveries'[e] = deliveries[e]]_vars

C16_Witness ==
  /\ Len(deliveries) = 2
  /\ deliveries[1].st = "called"
  /\ deliveries[2].st = "acked"

\* C18 as stated: every message i of a run is published with baggage
\* user.id = "user-" + (1000 + i), request.source = "api-gateway",
\* message.number = the decimal string of i and a session.id that is the same
\* on all messages of the run.
C18_PublisherBaggage ==
  /\ \A j \in DOMAIN queue :
       LET B == BaggageRecord(getAllEntries(queue[j].baggage))
           i == queue[j].from
       IN  /\ {"user.id", "request.source", "message.number", "session.id"} \subseteq DOMAIN B
           /\ B["user.id"] = "user-" \o ToString(1000 + i)
           /\ B["request.source"] = "api-gateway"
           /\ B["message.number"] = ToString(i)
  /\ \A j, k \in DOMAIN queue :
       BaggageRecord(getAllEntries(queue[j].baggage))["session.id"]
         = BaggageRecord(getAllEntries(queue[k].baggage))["session.id"]

\* C17: in both copies of connectWithRetry the attempts are made one after the
\* other and surfaced with the numbers 1, 2, ... up to maxRetries; exactly one
\* wait of delayMs lies between a refused attempt and the next one; no wait
\* follows the last refused attempt before the failure is raised, and no wait
\* follows an accepted attempt.
C17_TraceOfConnect(trace, pc, conn, attempt) ==
  /\ \A j \in DOMAIN trace :
       trace[j] = IF j % 2 = 1 THEN <<"attempt", (j + 1) \div 2>> ELSE <<"wait", DelayMs>>
  /\ Len(trace) <= 2 * MaxRetries - 1
  /\ (pc = "connect" /\ conn = "none") => Len(trace) % 2 = 0 /\ attempt = Len(trace) \div 2 + 1
  /\ pc = "retrySleep" => Len(trace) % 2 = 0 /\ Len(trace) > 0 /\ attempt = Len(trace) \div 2
  /\ (conn = "connected" /\ pc = "createChannel")
       => Len(trace) % 2 = 1 /\ trace[Len(trace)] = <<"attempt", attempt>>
  /\ conn = "exhausted"
       => Len(trace) = 2 * MaxRetries - 1 /\ trace[Len(trace)] = <<"attempt", MaxRetries>>

C17_SequentialAttempts ==
  /\ C17_TraceOfConnect(pTrace, pPc, pConn, pAttempt)
  /\ C17_TraceOfConnect(cTrace, cPc, cConn, cAttempt)

C17_Witness ==
  /\ pConn = "exhausted" /\ pExit = 1
  /\ cConn = "connected" /\ cPc = "createChannel" /\ Len(cTrace) = 5

\* C20: when publishMessages is over, a close has been requested for the
\* connection if one was opened and for the channel if one was created, the
\* channel's before the connection's; a close that fails inside the catch
\* block still leaves the exit code at 1; with the connection attempts
\* exhausted nothing was opened and nothing is closed.  Before the end of the
\* run no close is requested except the channel's on the way to the
\* connection's.
FirstIndex(seq, x) == CHOOSE j \in DOMAIN seq : seq[j] = x /\ \A k \in 1..(j - 1) : seq[k] # x

Requested(x) == \E j \in DOMAIN pCloses : pCloses[j] = x

C20_ProducerCleanup ==
  /\ PublisherOver
       => /\ pConn = "exhausted" => pCloses = << >> /\ pExit = 1
          /\ pConn = "connected" => Requested("connection")
          /\ pChannel <=> Requested("channel")
          /\ pChannel => FirstIndex(pCloses, "channel") < FirstIndex(pCloses, "connection")
          /\ pCatchFailed => pExit = 1
          /\ pPc = "exited" <=> pExit = 1
          /\ pPc = "done" <=> pExit = 0
  /\ ~PublisherOver
       => /\ pExit = -1 /\ ~pCatchFailed
          /\ pCloses = IF pPc = "closeConnection" THEN <<"channel">> ELSE << >>

C20_Witness ==
  /\ pFailedAt = 2 /\ pCatchFailed /\ pExit = 1
  /\ pCloses = <<"channel", "connection">>

\* C15: for a delivery without a carrier whose content parses, the context
\* read by processMessage has no baggage entries, the downstream call is
\* issued all the same, a nack is invoked only after that call failed (or
\* after the ack itself threw), and when the call came back with a 2xx JSON
\* response the flow ends with ack invoked.
C15_NoCarrierStillProcessed ==
  \A d \in Tags :
    LET dl == deliveries[d] IN
    (dl.msg.headers = EmptyCarrier /\ dl.msg.content.json)
      => /\ getAllEntries(dl.ctx) = << >>
         /\ dl.calls = 1 /\ dl.req.issued
         /\ dl.nacks >= 1 => (dl.error \/ ~callResolves(dl.resp) \/ dl.acks = 1)
         /\ (Resolved(dl) /\ dl.resp.status \in 200..299 /\ dl.resp.text.json) => dl.acks = 1

C15_Witness ==
  \E d \in Tags :
    /\ deliveries[d].msg.headers = EmptyCarrier /\ deliveries[d].msg.content.json
    /\ deliveries[d].st = "acked" /\ deliveries[d].resp.status = 200

\* C13: the baggage extracted from the carrier a context was injected into
\* has the entries of that context, the same keys with the same value per
\* key, whatever else the carrier holds; a carrier nothing was injected into,
\* empty or holding only other keys, yields a context without entries.
C13_RoundTrip ==
  /\ kPc = "decoded"
       => /\ Len(getAllEntries(kDecoded)) = Len(getAllEntries(kBaggage))
          /\ BaggageRecord(getAllEntries(kDecoded)) = BaggageRecord(getAllEntries(kBaggage))
  /\ kPc = "foreign" => getAllEntries(kDecoded) = << >>

C13_Witness ==
  /\ kPc = "decoded"
  /\ "traceparent" \in DOMAIN kCarrier
  /\ Len(kBaggage) = 2
  /\ kBaggage[1] = <<"k,;", "">>
  /\ kBaggage[2] = <<"a=b", " s %3D ">>

\* C19: with a broker that delivers every ready message again and a
\* downstream that answers every call and eventually with success, once the
\* consumer is consuming, n well-formed messages put on the queue lead to n
\* acked deliveries and, when all of them are acked, to an empty queue; and a
\* delivery is acked only after a downstream call was made for it (one call
\* per delivery, a redelivered message being called again).
NumAcked == Cardinality({ d \in Tags : deliveries[d].st = "acked" })

C19_AtLeastOnce ==
  /\ \A n \in 1..MaxForeign :
       (cStarted /\ foreign >= n)
         ~> (NumAcked >= n /\ (NumAcked = foreign => queue = << >>))
  /\ [](\A d \in Tags : deliveries[d].st = "acked"
                            => deliveries[d].calls = 1 /\ deliveries[d].req.issued)

C19_Witness ==
  /\ Len(deliveries) = 2 /\ queue = << >>
  /\ deliveries[1].st = "nacked" /\ deliveries[1].calls = 1
  /\ deliveries[2].st = "acked" /\ deliveries[2].msg = deliveries[1].msg

====
